---- MODULE Spec2Model ----
(***************************************************************************)
(* Model of BaseStrategy (src/base_strategy.py), a freqtrade strategy      *)
(* plugin: the dataframe cache with time-based invalidation, the dynamic   *)
(* max-open-trades bookkeeping, the scheduled removal of 'Auto lock's, and *)
(* the callbacks confirm_trade_exit, leverage and log.                     *)
(*                                                                         *)
(* Numbers: times are whole seconds; profit ratios are in units of 1e-4    *)
(* (0.0025 is 25); leverages are in tenths (1.0 is 10); a stoploss         *)
(* percentage is in hundredths (-0.5 is -50); rates are whole price units. *)
(***************************************************************************)
EXTENDS Integers, Sequences, FiniteSets, TLC

\* ------------------------------------------------------------------ bounds
MaxTime == 300
ThrottleSecs == 5
MaxTrades == 2
MaxScheduled == 2
MaxCache == 2
MaxConfigTrades == 1
MaxLeverage == 3

\* ------------------------------------------------------- program constants
min_profit == 25
PeriodMinutes == 5
PeriodSeconds == 8
CacheMarginMinutes == 2
StoplossBand == 10

\* -------------------------------------------------------------- the inputs
Pairs == {"BTC/USDT", "ETH/USDT"}
Sides == {"long", "short"}
Timeframes == {"1m", "3m"}
DataFrames == {"df1", "df2"}
Rates == {1, 2}
InitialStopLossPcts == {-50}
TradeIds == 1..MaxTrades
None == "None"

CheckedExitReasons ==
    {"roi", "stop_loss", "stoploss_on_exchange", "trailing_stop_loss", "exit_signal"}
ExitReasons == CheckedExitReasons \cup {"force_exit", "emergency_exit", "custom"}
Levels == {"INFO", "DEBUG", "WARNING", "ERROR"}
Notify == {None, "True", "False"}

\* An int of the configuration, or float('inf') (unlimited trades).
IntVal(n) == [kind |-> "int", val |-> n]
InfVal == [kind |-> "inf", val |-> 0]

VARIABLES
    now,                         \* datetime.now(), seconds
    looped,                      \* the host ran bot_loop_start at this instant
    started,                     \* bot_start has been called
    custom_info,                 \* [cache, remove_autolock, data]
    locks,                       \* PairLocks: the active locks, <<pair, reason>>
    trades,                      \* Trade table of the host
    ticker,                      \* dp.ticker(pair)['last']
    max_open_trades,             \* self.max_open_trades
    config,                      \* self.config
    config_max_trades,           \* self.config_max_trades
    enable_improved_trade_count, \* class attribute, set by the derived strategy
    leverage_configuration,      \* self.leverage_configuration
    sent,                        \* messages the last callback handed to dp.send_msg
    last,                        \* history: the last call, its arguments and result
    cached,                      \* history: <<pair, tf>> -> dataframe last cached, or None
    runs,                        \* history: period -> runs of the periodic tasks
    iters                        \* history: period -> a loop iteration happened

vars == <<now, looped, started, custom_info, locks, trades, ticker, max_open_trades,
          config, config_max_trades, enable_improved_trade_count,
          leverage_configuration, sent, last, cached, runs, iters>>

\* ------------------------------------------------------------------ helpers
Abs(x) == IF x < 0 THEN -x ELSE x

Call(op, arg, ret) == [op |-> op, arg |-> arg, ret |-> ret]

\* f"{pair}_{side}"
get_custom_pairkey(pair, side) == pair \o "_" \o side

\* f"{pair}_{tf}"
cache_key(pair, tf) == pair \o "_" \o tf

\* freqtrade.exchange.timeframe_to_minutes
timeframe_to_minutes(tf) ==
    CASE tf = "1m" -> 1
      [] tf = "3m" -> 3
      [] tf = "5m" -> 5
      [] tf = "1h" -> 60

\* current_time.minute and current_time.second
Minute(t) == (t \div 60) % 60
Second(t) == t % 60
Period(t) == t \div (PeriodMinutes * 60)
Periods == 0..Period(MaxTime)

\* ---------------------------------------------------------------------- log
\* Whether log(message, level, notify) calls dp.send_msg(message); the logger
\* is set by __init__, so the match on the level always runs.
log_sends(level, notify) ==
    LET send_notification == IF notify = None THEN FALSE ELSE notify = "True"
    IN  IF level \in {"WARNING", "ERROR"}
        THEN (IF notify = None THEN TRUE ELSE notify = "True")
        ELSE send_notification

\* The messages a call of log adds to the notifier.
log(message, level, notify) ==
    IF log_sends(level, notify) THEN {message} ELSE {}

\* ------------------------------------------------------------------- trades
NoTrade ==
    [status |-> "none", pair |-> "", trade_direction |-> "",
     stop_loss |-> 0, initial_stop_loss_pct |-> 0]

NewTrade(pair, side, stop_loss, pct) ==
    [status |-> "open", pair |-> pair, trade_direction |-> side,
     stop_loss |-> stop_loss, initial_stop_loss_pct |-> pct]

\* trade.is_open, trade.exit_side and trade.entry_side of the host's Trade
is_open(trade) == trade.status = "open"
exit_side(trade) == IF trade.trade_direction = "short" THEN "buy" ELSE "sell"
entry_side(trade) == IF trade.trade_direction = "short" THEN "sell" ELSE "buy"

\* Trade.get_trades_proxy(is_open=True)
get_trades_proxy_all(tr) == {t \in TradeIds : tr[t].status # "none"}

get_trades_proxy_open(tr) == {t \in TradeIds : is_open(tr[t])}

\* fabs(initial_stop_loss_pct - (stop_loss - current_rate) / current_rate) > 0.1,
\* both sides multiplied by 100 * current_rate (current_rate > 0).
stoploss_active(trade, current_rate) ==
    Abs(trade.initial_stop_loss_pct * current_rate
        - 100 * (trade.stop_loss - current_rate)) > StoplossBand * current_rate

get_trade_stoploss_count(tr, tk) ==
    Cardinality({t \in get_trades_proxy_open(tr) : stoploss_active(tr[t], tk[tr[t].pair])})

\* update_max_trade_count on (self.max_open_trades, self.config) with the host's
\* trades and tickers: the new values and the notifications sent.
update_max_trade_count_unsynced(cur, cfg, tr, tk) ==
    IF ~enable_improved_trade_count
    THEN [max_open_trades |-> cur, config |-> cfg, sent |-> {}]
    ELSE LET sl_trade_count == get_trade_stoploss_count(tr, tk)
             new_trade_count == IntVal(config_max_trades + sl_trade_count)
         IN  IF cur # new_trade_count
             THEN [max_open_trades |-> new_trade_count,
                   config |-> cfg,
                   sent |-> log("max_open_trades_changed", "INFO", "True")]
             ELSE [max_open_trades |-> cur, config |-> cfg,
                   sent |-> log("max_open_trades_left", "INFO", None)]

update_max_trade_count(cur, cfg, tr, tk) ==
    IF ~enable_improved_trade_count
    THEN [max_open_trades |-> cur, config |-> cfg, sent |-> {}]
    ELSE LET sl_trade_count == get_trade_stoploss_count(tr, tk)
             current_trade_count == cur
             new_trade_count == IntVal(config_max_trades + sl_trade_count)
         IN  IF current_trade_count # new_trade_count
             THEN [max_open_trades |-> new_trade_count,
                   config |-> [cfg EXCEPT !.max_open_trades = new_trade_count],
                   sent |-> log("max_open_trades_changed", "INFO", "True")]
             ELSE [max_open_trades |-> cur, config |-> cfg,
                   sent |-> log("max_open_trades_left", "INFO", None)]

\* ------------------------------------------------------------ construction
\* float(v) of __init__: an int, a float or a numeric string, to a float (tenths).
ToFloat(v) ==
    CASE v.type = "int" -> 10 * v.val
      [] v.type = "float" -> v.val
      [] v.type = "str" -> v.val

RawInt(n) == [type |-> "int", val |-> n]
RawFloat(tenths) == [type |-> "float", val |-> tenths]
RawStr(tenths) == [type |-> "str", val |-> tenths]

\* The values config['max_open_trades'] has when __init__ reads it; Absent stands
\* for a configuration without the key.
Absent == [kind |-> "absent", val |-> 0]
ConfigTrades == {IntVal(n) : n \in 1..MaxConfigTrades} \cup {InfVal}

\* The state after __init__ and the host's resolver, which sets the attribute
\* max_open_trades and config['max_open_trades'] to one value.
InitStrategy(raw_leverage, at_init, resolved, enable) ==
    /\ now = 0
    /\ looped = FALSE
    /\ started = FALSE
    /\ custom_info = [cache |-> <<>>, remove_autolock |-> <<>>, data |-> {}]
    /\ locks = {}
    /\ trades = [t \in TradeIds |-> NoTrade]
    /\ ticker = [p \in Pairs |-> 1]
    /\ config_max_trades = (IF at_init.kind = "int" THEN at_init.val ELSE 0)
    /\ max_open_trades = (IF at_init = Absent THEN resolved ELSE at_init)
    /\ config = [max_open_trades |-> IF at_init = Absent THEN resolved ELSE at_init]
    /\ enable_improved_trade_count = enable
    /\ leverage_configuration = [k \in DOMAIN raw_leverage |-> ToFloat(raw_leverage[k])]
    /\ sent = {}
    /\ last = Call("__init__", <<>>, None)
    /\ cached = [k \in Pairs \X Timeframes |-> None]
    /\ runs = [p \in Periods |-> 0]
    /\ iters = [p \in Periods |-> FALSE]

\* ---------------------------------------------------------------- bot_start
BotStart ==
    /\ ~started
    /\ started' = TRUE
    /\ custom_info' = [custom_info EXCEPT !.cache = <<>>, !.remove_autolock = <<>>]
    /\ LET u == update_max_trade_count(max_open_trades, config, trades, ticker)
       IN  /\ max_open_trades' = u.max_open_trades
           /\ config' = u.config
           /\ sent' = log("version", "INFO", None)
                           \cup log("leverage_configuration", "INFO", None) \cup u.sent
    /\ last' = Call("bot_start", <<>>, None)
    /\ UNCHANGED <<now, looped, locks, trades, ticker, config_max_trades,
                   enable_improved_trade_count, leverage_configuration,
                   cached, runs, iters>>

\* ----------------------------------------------------------- the host's side
\* Time passes by one loop throttle, or to the start of the next minute.
TickThrottle ==
    /\ now + ThrottleSecs <= MaxTime
    /\ now' = now + ThrottleSecs
    /\ looped' = FALSE
    /\ last' = Call("tick", <<>>, None)
    /\ UNCHANGED <<started, custom_info, locks, trades, ticker, max_open_trades,
                   config, config_max_trades, enable_improved_trade_count,
                   leverage_configuration, sent, cached, runs, iters>>

TickMinute ==
    /\ (now \div 60 + 1) * 60 <= MaxTime
    /\ now' = (now \div 60 + 1) * 60
    /\ looped' = FALSE
    /\ last' = Call("tick", <<>>, None)
    /\ UNCHANGED <<started, custom_info, locks, trades, ticker, max_open_trades,
                   config, config_max_trades, enable_improved_trade_count,
                   leverage_configuration, sent, cached, runs, iters>>

\* The exchange's last price of a pair changes.
PriceChange(pair, rate) ==
    /\ started
    /\ ticker[pair] # rate
    /\ ticker' = [ticker EXCEPT ![pair] = rate]
    /\ last' = Call("ticker", <<>>, None)
    /\ UNCHANGED <<now, looped, started, custom_info, locks, max_open_trades, config,
                   trades, config_max_trades, enable_improved_trade_count,
                   leverage_configuration, sent, cached, runs, iters>>

\* The host locks a pair ('Auto lock' after closing a trade, or a protection's lock).
LockReasons == {"Auto lock", "Cooldown"}

LockPair(pair, reason) ==
    /\ started
    /\ <<pair, reason>> \notin locks
    /\ locks' = locks \cup {<<pair, reason>>}
    /\ last' = Call("lock_pair", <<>>, None)
    /\ UNCHANGED <<now, looped, started, custom_info, trades, ticker, max_open_trades,
                   config, config_max_trades, enable_improved_trade_count,
                   leverage_configuration, sent, cached, runs, iters>>

\* ------------------------------------------------------------- order_filled
\* The trade as the host leaves it when an order of this kind has filled:
\* an entry creates it, an exit closes it, a position adjustment or a partial
\* exit leaves it open.
OrderKinds == {"entry", "adjust", "partial_exit", "exit"}

FilledTrade(trade, kind, fresh) ==
    CASE kind = "entry" -> fresh
      [] kind = "exit" -> [trade EXCEPT !.status = "closed"]
      [] OTHER -> trade

\* order.ft_order_side
ft_order_side(trade, kind) ==
    IF kind \in {"entry", "adjust"} THEN entry_side(trade) ELSE exit_side(trade)

\* The custom data left by order_filled(pair, trade, order, current_time).
order_filled_data_any_exit(data, trade, order_side) ==
    IF order_side = exit_side(trade)
    THEN LET custompairkey == get_custom_pairkey(trade.pair, trade.trade_direction)
         IN  IF custompairkey \in data THEN data \ {custompairkey} ELSE data
    ELSE data

order_filled_data(data, trade, order_side) ==
    IF order_side = exit_side(trade) /\ ~is_open(trade)
    THEN LET custompairkey == get_custom_pairkey(trade.pair, trade.trade_direction)
         IN  IF custompairkey \in data THEN data \ {custompairkey} ELSE data
    ELSE data

OrderFilled(t, kind, fresh) ==
    /\ started
    /\ IF kind = "entry"
       THEN /\ trades[t].status = "none"
            /\ \A u \in TradeIds : u < t => trades[u].status # "none"
       ELSE /\ is_open(trades[t])
            /\ fresh = trades[t]
    /\ LET trade == FilledTrade(trades[t], kind, fresh)
           tr == [trades EXCEPT ![t] = trade]
           side == ft_order_side(trade, kind)
           data == order_filled_data(custom_info.data, trade, side)
           u == update_max_trade_count(max_open_trades, config, tr, ticker)
       IN  /\ trades' = tr
           /\ custom_info' = [custom_info EXCEPT !.data = data]
           /\ max_open_trades' = u.max_open_trades
           /\ config' = u.config
           /\ sent' = u.sent
                           \cup (IF data # custom_info.data
                                 THEN log("removed_custom_data", "INFO", None) ELSE {})
           /\ last' = Call("order_filled", <<t, kind, side>>,
                           IF data # custom_info.data
                           THEN get_custom_pairkey(trade.pair, trade.trade_direction)
                           ELSE None)
    /\ UNCHANGED <<now, looped, started, locks, ticker, config_max_trades,
                   enable_improved_trade_count, leverage_configuration,
                   cached, runs, iters>>

\* create_custom_data(pair_key), called by the derived strategy.
create_custom_data(data, pair_key) ==
    IF pair_key \notin data THEN data \cup {pair_key} ELSE data

CreateCustomData(pair, side) ==
    /\ started
    /\ LET pair_key == get_custom_pairkey(pair, side)
       IN  /\ pair_key \notin custom_info.data
           /\ custom_info' =
                  [custom_info EXCEPT !.data = create_custom_data(@, pair_key)]
           /\ sent' = log("created_custom_data", "INFO", None)
           /\ last' = Call("create_custom_data", <<>>, None)
    /\ UNCHANGED <<now, looped, started, locks, trades, ticker, max_open_trades,
                   config, config_max_trades, enable_improved_trade_count,
                   leverage_configuration, cached, runs, iters>>

\* -------------------------------------------------------------------- cache
\* custom_info['cache'] after cache_dataframe(df, pair, tf) at time t; the
\* dataframe is stored by value (df.copy()).
cache_dataframe_stale(cache, df, pair, tf, t) ==
    LET key == cache_key(pair, tf)
        entry == IF key \in DOMAIN cache
                 THEN [cache[key] EXCEPT !.datetime = t]
                 ELSE [tf |-> tf, df |-> df, datetime |-> t]
    IN  [k \in DOMAIN cache \cup {key} |-> IF k = key THEN entry ELSE cache[k]]

cache_dataframe(cache, df, pair, tf, t) ==
    LET key == cache_key(pair, tf)
        entry == [tf |-> IF key \in DOMAIN cache THEN cache[key].tf ELSE tf,
                  df |-> df, datetime |-> t]
    IN  [k \in DOMAIN cache \cup {key} |-> IF k = key THEN entry ELSE cache[k]]

get_dataframe_from_cache(cache, pair, tf) ==
    LET key == cache_key(pair, tf)
    IN  IF key \in DOMAIN cache THEN cache[key].df ELSE None

\* (minutes - 2) > timeframe_to_minutes(tf), with minutes = seconds / 60,
\* both sides multiplied by 60.
outdated_inclusive(entry, t) ==
    (t - entry.datetime) - CacheMarginMinutes * 60 >= 60 * timeframe_to_minutes(entry.tf)

outdated(entry, t) ==
    (t - entry.datetime) - CacheMarginMinutes * 60 > 60 * timeframe_to_minutes(entry.tf)

cleanup_cache(cache, t) ==
    LET outdatedkeys == {key \in DOMAIN cache : outdated(cache[key], t)}
    IN  [key \in DOMAIN cache \ outdatedkeys |-> cache[key]]

\* History: what was last cached for each pair and timeframe, forgotten when
\* the entry of that pair and timeframe leaves the cache.
Evict(before, after) ==
    [k \in Pairs \X Timeframes |->
        IF cache_key(k[1], k[2]) \in DOMAIN before \ DOMAIN after
        THEN None ELSE cached[k]]

CacheDataframe(df, pair, tf) ==
    /\ started
    /\ \/ cache_key(pair, tf) \in DOMAIN custom_info.cache
       \/ Cardinality(DOMAIN custom_info.cache) < MaxCache
    /\ custom_info' = [custom_info EXCEPT
                           !.cache = cache_dataframe(@, df, pair, tf, now)]
    /\ cached' = [cached EXCEPT ![<<pair, tf>>] = df]
    /\ sent' = (IF cache_key(pair, tf) \notin DOMAIN custom_info.cache
                          THEN log("created_cache", "INFO", None) ELSE {})
    /\ last' = Call("cache_dataframe", <<>>, None)
    /\ UNCHANGED <<now, looped, started, locks, trades, ticker, max_open_trades,
                   config, config_max_trades, enable_improved_trade_count,
                   leverage_configuration, runs, iters>>

CleanupCache ==
    /\ started
    /\ LET after == cleanup_cache(custom_info.cache, now)
       IN  /\ custom_info' = [custom_info EXCEPT !.cache = after]
           /\ cached' = Evict(custom_info.cache, after)
           /\ sent' = (IF DOMAIN after # DOMAIN custom_info.cache
                                 THEN log("removing_cache", "INFO", None) ELSE {})
    /\ last' = Call("cleanup_cache",
                    <<DOMAIN custom_info.cache
                      \ DOMAIN cleanup_cache(custom_info.cache, now)>>, None)
    /\ UNCHANGED <<now, looped, started, locks, trades, ticker, max_open_trades,
                   config, config_max_trades, enable_improved_trade_count,
                   leverage_configuration, runs, iters>>

GetDataframeFromCache(pair, tf) ==
    /\ started
    /\ last' = Call("get_dataframe_from_cache", <<pair, tf>>,
                    get_dataframe_from_cache(custom_info.cache, pair, tf))
    /\ UNCHANGED <<now, looped, started, custom_info, locks, trades, ticker,
                   max_open_trades, config, config_max_trades,
                   enable_improved_trade_count, leverage_configuration, sent,
                   cached, runs, iters>>

\* ---------------------------------------------------------------- autolocks
\* PairLocks of the host: unlock_reason releases every lock with the reason,
\* get_pair_longest_lock finds a lock of the pair whatever its reason.
unlock_reason(lk, reason) == {l \in lk : l[2] # reason}

is_locked_until(lk, pair) == \E l \in lk : l[1] = pair

ScheduleRemoveAutolock(pair) ==
    /\ started
    /\ Len(custom_info.remove_autolock) < MaxScheduled
    /\ custom_info' = [custom_info EXCEPT !.remove_autolock = Append(@, pair)]
    /\ sent' = log("scheduled", "INFO", None)
    /\ last' = Call("schedule_remove_autolock", <<>>, None)
    /\ UNCHANGED <<now, looped, started, locks, trades, ticker, max_open_trades,
                   config, config_max_trades, enable_improved_trade_count,
                   leverage_configuration, cached, runs, iters>>

\* ----------------------------------------------------------- bot_loop_start
\* current_time.minute % 5 == 0 and current_time.second <= 8
periodic(current_time) ==
    Minute(current_time) % PeriodMinutes = 0 /\ Second(current_time) <= PeriodSeconds

\* The locks after the removal of the scheduled pairs' 'Auto lock'.
remove_autolocks_first_only(lk, scheduled) ==
    IF Len(scheduled) > 0
    THEN {l \in lk : ~(l[2] = "Auto lock" /\ l[1] = scheduled[1])}
    ELSE lk

remove_autolocks(lk, scheduled) ==
    IF Len(scheduled) > 0 THEN unlock_reason(lk, "Auto lock") ELSE lk

BotLoopStart ==
    /\ started
    /\ ~looped
    /\ looped' = TRUE
    /\ LET current_time == now
           run == periodic(current_time)
           scheduled == custom_info.remove_autolock
           after == IF run THEN cleanup_cache(custom_info.cache, now)
                    ELSE custom_info.cache
           u == IF run
                THEN update_max_trade_count(max_open_trades, config, trades, ticker)
                ELSE [max_open_trades |-> max_open_trades, config |-> config,
                      sent |-> {}]
           lk == remove_autolocks(locks, scheduled)
           still == {scheduled[i] : i \in 1..Len(scheduled)}
       IN  /\ custom_info' = [custom_info EXCEPT
                  !.cache = after,
                  !.remove_autolock = IF Len(scheduled) > 0 THEN <<>> ELSE @]
           /\ cached' = Evict(custom_info.cache, after)
           /\ max_open_trades' = u.max_open_trades
           /\ config' = u.config
           /\ locks' = lk
           /\ sent' = u.sent
                  \cup UNION {IF is_locked_until(lk, pair)
                              THEN log("still_locked:" \o pair, "ERROR", None)
                              ELSE {} : pair \in still}
           /\ runs' = IF run THEN [runs EXCEPT ![Period(now)] = @ + 1] ELSE runs
           /\ iters' = [iters EXCEPT ![Period(now)] = TRUE]
           /\ last' = Call("bot_loop_start",
                           <<scheduled, locks \ lk,
                             DOMAIN custom_info.cache \ DOMAIN after>>,
                           IF run THEN "periodic" ELSE None)
    /\ UNCHANGED <<now, started, trades, ticker, config_max_trades,
                   enable_improved_trade_count, leverage_configuration>>

\* ------------------------------------------------------- confirm_trade_exit
Profits == {-min_profit, 0, min_profit - 1, min_profit, min_profit + 1}

\* confirmed is the host's default confirmation, current_profit is
\* trade.calc_profit_ratio(rate).
confirm_trade_exit_no_bypass(exit_reason, current_profit, confirmed) ==
    IF current_profit <= min_profit THEN FALSE ELSE confirmed

confirm_trade_exit(exit_reason, current_profit, confirmed) ==
    IF exit_reason \in CheckedExitReasons /\ current_profit <= min_profit
    THEN FALSE
    ELSE confirmed

ConfirmTradeExit(pair, exit_reason, current_profit, confirmed) ==
    /\ started
    /\ LET ret == confirm_trade_exit(exit_reason, current_profit, confirmed)
       IN  /\ last' = Call("confirm_trade_exit",
                           <<pair, exit_reason, current_profit, confirmed>>, ret)
           /\ sent' = (IF exit_reason \in CheckedExitReasons /\ current_profit <= min_profit
                   THEN log("reject_exit:" \o pair, "WARNING", None) ELSE {})
    /\ UNCHANGED <<now, looped, started, custom_info, locks, trades, ticker,
                   max_open_trades, config, config_max_trades,
                   enable_improved_trade_count, leverage_configuration,
                   cached, runs, iters>>

\* ----------------------------------------------------------------- leverage
LeverageKeys == {"BTC/USDT_long", "default"}
RawLeverages == {RawInt(1), RawInt(MaxLeverage + 2), RawFloat(5), RawStr(25)}
RawLeverageConfigurations == UNION {[K -> RawLeverages] : K \in SUBSET LeverageKeys}
MaxLeverages == {10 * n : n \in 1..MaxLeverage}

leverage_default_first(configuration, pair, side) ==
    LET pairkey == pair \o "_" \o side
    IN  IF "default" \in DOMAIN configuration THEN configuration["default"]
        ELSE IF pairkey \in DOMAIN configuration THEN configuration[pairkey]
        ELSE 10

leverage(configuration, pair, side) ==
    LET pairkey == pair \o "_" \o side
    IN  IF pairkey \in DOMAIN configuration THEN configuration[pairkey]
        ELSE IF "default" \in DOMAIN configuration THEN configuration["default"]
        ELSE 10

Leverage(pair, side, max_leverage) ==
    /\ started
    /\ last' = Call("leverage", <<pair, side, max_leverage>>,
                    leverage(leverage_configuration, pair, side))
    /\ sent' = log("returning_leverage", "INFO", None)
    /\ UNCHANGED <<now, looped, started, custom_info, locks, trades, ticker,
                   max_open_trades, config, config_max_trades,
                   enable_improved_trade_count, leverage_configuration,
                   cached, runs, iters>>

\* ---------------------------------------------------------------------- log
Messages == {"m1", "m2", "m3"}

LogCall(message, level, notify) ==
    /\ started
    /\ sent' = log(message, level, notify)
    /\ last' = Call("log", <<message, level, notify>>, log_sends(level, notify))
    /\ UNCHANGED <<now, looped, started, custom_info, locks, trades, ticker,
                   max_open_trades, config, config_max_trades,
                   enable_improved_trade_count, leverage_configuration,
                   cached, runs, iters>>

\* ----------------------------------------------------------- specifications
Init ==
    \E raw \in RawLeverageConfigurations, at_init \in ConfigTrades \cup {Absent},
       resolved \in ConfigTrades, enable \in BOOLEAN :
        /\ at_init # Absent => resolved = at_init
        /\ InitStrategy(raw, at_init, resolved, enable)

Next ==
    \/ BotStart
    \/ BotLoopStart
    \/ TickThrottle
    \/ TickMinute
    \/ \E pair \in Pairs, rate \in Rates : PriceChange(pair, rate)
    \/ \E pair \in Pairs, reason \in LockReasons : LockPair(pair, reason)
    \/ \E t \in TradeIds, kind \in OrderKinds, pair \in Pairs, side \in Sides,
          stop_loss \in Rates, pct \in InitialStopLossPcts :
          OrderFilled(t, kind, NewTrade(pair, side, stop_loss, pct))
    \/ \E pair \in Pairs, side \in Sides : CreateCustomData(pair, side)
    \/ \E df \in DataFrames, pair \in Pairs, tf \in Timeframes :
          CacheDataframe(df, pair, tf)
    \/ CleanupCache
    \/ \E pair \in Pairs, tf \in Timeframes : GetDataframeFromCache(pair, tf)
    \/ \E pair \in Pairs : ScheduleRemoveAutolock(pair)
    \/ \E pair \in Pairs, reason \in ExitReasons, profit \in Profits,
          confirmed \in BOOLEAN : ConfirmTradeExit(pair, reason, profit, confirmed)
    \/ \E pair \in Pairs, side \in Sides, max_leverage \in MaxLeverages :
          Leverage(pair, side, max_leverage)
    \/ \E message \in Messages, level \in Levels, notify \in Notify :
          LogCall(message, level, notify)

Spec == Init /\ [][Next]_vars

\* The trade-count bookkeeping: orders fill, prices move, the loop runs.
\* can_short is False, so every trade is long.
InitTrades ==
    \E at_init \in ConfigTrades \cup {Absent}, resolved \in ConfigTrades :
        /\ at_init # Absent => resolved = at_init
        /\ at_init = Absent => resolved # InfVal
        /\ InitStrategy(<<>>, at_init, resolved, TRUE)

NextTrades ==
    \/ BotStart
    \/ BotLoopStart
    \/ \E pair \in Pairs, rate \in Rates : PriceChange(pair, rate)
    \/ \E t \in TradeIds, kind \in OrderKinds, pair \in Pairs,
          stop_loss \in Rates, pct \in InitialStopLossPcts :
          OrderFilled(t, kind, NewTrade(pair, "long", stop_loss, pct))

SpecTrades == InitTrades /\ [][NextTrades]_vars

\* The dataframe cache, minute by minute.
InitCache == InitStrategy(<<>>, IntVal(1), IntVal(1), FALSE)

NextCache ==
    \/ BotStart
    \/ BotLoopStart
    \/ TickMinute
    \/ \E df \in DataFrames, pair \in Pairs, tf \in Timeframes :
          CacheDataframe(df, pair, tf)
    \/ CleanupCache
    \/ \E pair \in Pairs, tf \in Timeframes : GetDataframeFromCache(pair, tf)

SpecCache == InitCache /\ [][NextCache]_vars

\* The scheduled removal of 'Auto lock's.
InitLocks == InitStrategy(<<>>, IntVal(1), IntVal(1), FALSE)

NextLocks ==
    \/ BotStart
    \/ BotLoopStart
    \/ TickMinute
    \/ \E pair \in Pairs, reason \in LockReasons : LockPair(pair, reason)
    \/ \E pair \in Pairs : ScheduleRemoveAutolock(pair)

SpecLocks == InitLocks /\ [][NextLocks]_vars

\* The loop and its periodic tasks, second by second.
InitLoop == InitStrategy(<<>>, IntVal(1), IntVal(1), TRUE)

NextLoop ==
    \/ BotStart
    \/ BotLoopStart
    \/ TickThrottle
    \/ TickMinute

SpecLoop == InitLoop /\ [][NextLoop]_vars

\* The callbacks that only answer: confirm_trade_exit, leverage, log.
InitCallbacks ==
    \E raw \in RawLeverageConfigurations : InitStrategy(raw, IntVal(1), IntVal(1), FALSE)

NextCallbacks ==
    \/ BotStart
    \/ \E pair \in Pairs, reason \in ExitReasons, profit \in Profits,
          confirmed \in BOOLEAN : ConfirmTradeExit(pair, reason, profit, confirmed)
    \/ \E pair \in Pairs, side \in Sides, max_leverage \in MaxLeverages :
          Leverage(pair, side, max_leverage)
    \/ \E message \in Messages, level \in Levels, notify \in Notify :
          LogCall(message, level, notify)

SpecCallbacks == InitCallbacks /\ [][NextCallbacks]_vars

\* The custom data of the trades: the derived strategy creates entries for
\* both pairs, long and short orders of one pair fill, beside one cached
\* dataframe and scheduled pairs.
InitData == InitStrategy(<<>>, IntVal(1), IntVal(1), FALSE)

NextData ==
    \/ BotStart
    \/ \E pair \in Pairs, side \in Sides : CreateCustomData(pair, side)
    \/ \E t \in TradeIds, kind \in OrderKinds, side \in Sides,
          pct \in InitialStopLossPcts :
          OrderFilled(t, kind, NewTrade("BTC/USDT", side, 1, pct))
    \/ CacheDataframe("df1", "BTC/USDT", "1m")
    \/ ScheduleRemoveAutolock("BTC/USDT")

SpecData == InitData /\ [][NextData]_vars

\* The stoploss band: trades with a stoploss of 50% and of 10%, the latter
\* exactly on the band when the last price equals the stop.
BandStopLossPcts == {-50, -10}

InitStoploss == InitStrategy(<<>>, IntVal(1), IntVal(1), TRUE)

NextStoploss ==
    \/ BotStart
    \/ BotLoopStart
    \/ \E pair \in Pairs, rate \in Rates : PriceChange(pair, rate)
    \/ \E t \in TradeIds, kind \in OrderKinds, pair \in Pairs,
          pct \in BandStopLossPcts :
          OrderFilled(t, kind, NewTrade(pair, "long", 1, pct))

SpecStoploss == InitStoploss /\ [][NextStoploss]_vars

\* ------------------------------------------------------------------ claims
\* The last call ran update_max_trade_count.
UpdateCalled ==
    \/ last.op \in {"bot_start", "order_filled"}
    \/ last.op = "bot_loop_start" /\ last.ret = "periodic"

\* C1: with enable_improved_trade_count set, right after a call of
\* update_max_trade_count (from bot_start, order_filled or the periodic branch
\* of bot_loop_start) max_open_trades and config['max_open_trades'] both equal
\* config_max_trades plus the number of open trades running in stoploss.
C1_MaxOpenTradesFollowsStoploss ==
    (enable_improved_trade_count /\ UpdateCalled) =>
        LET expected == IntVal(config_max_trades
                               + get_trade_stoploss_count(trades, ticker))
        IN  /\ max_open_trades = expected
            /\ config.max_open_trades = expected

\* An order filled, a trade runs in stoploss, and the count was added.
C1_Witness ==
    /\ enable_improved_trade_count
    /\ last.op = "order_filled"
    /\ get_trade_stoploss_count(trades, ticker) >= 1
    /\ max_open_trades.kind = "int"
    /\ max_open_trades.val = config_max_trades + get_trade_stoploss_count(trades, ticker)
    /\ config.max_open_trades = max_open_trades

\* C2: for a checked exit reason confirm_trade_exit returns False exactly when
\* the profit ratio is lower than min_profit, and the host's default
\* confirmation when the profit ratio is not lower than min_profit.
C2_RejectsExactlyBelowMinProfit ==
    (last.op = "confirm_trade_exit" /\ last.arg[2] \in CheckedExitReasons) =>
        /\ last.arg[3] < min_profit => last.ret = FALSE
        /\ last.arg[3] >= min_profit => last.ret = last.arg[4]

\* C3: for an exit reason outside the five checked ones confirm_trade_exit
\* returns the host's default confirmation whatever the profit, and for no
\* exit reason does it return True when the host's default returned False.
C3_BypassAndNeverOverrules ==
    last.op = "confirm_trade_exit" =>
        /\ last.arg[2] \notin CheckedExitReasons => last.ret = last.arg[4]
        /\ last.ret = TRUE => last.arg[4] = TRUE

\* A force_exit below the minimum profit was confirmed.
C3_Witness ==
    /\ last.op = "confirm_trade_exit"
    /\ last.arg[2] = "force_exit"
    /\ last.arg[3] < min_profit
    /\ last.arg[4] = TRUE
    /\ last.ret = TRUE

\* C4: the value leverage returns is between 1.0 and max_leverage.
C4_LeverageInRange ==
    last.op = "leverage" => (10 <= last.ret /\ last.ret <= last.arg[3])

\* C5: leverage returns the entry '<pair>_<side>' of leverage_configuration
\* when it exists, otherwise the entry 'default' when it exists, otherwise 1.0.
C5_LeverageLookup ==
    last.op = "leverage" =>
        LET pairkey == last.arg[1] \o "_" \o last.arg[2]
        IN  /\ pairkey \in DOMAIN leverage_configuration
                => last.ret = leverage_configuration[pairkey]
            /\ (pairkey \notin DOMAIN leverage_configuration
                /\ "default" \in DOMAIN leverage_configuration)
                => last.ret = leverage_configuration["default"]
            /\ (pairkey \notin DOMAIN leverage_configuration
                /\ "default" \notin DOMAIN leverage_configuration)
                => last.ret = 10

\* Both entries exist and differ, and the pair's entry was returned.
C5_Witness ==
    /\ last.op = "leverage"
    /\ DOMAIN leverage_configuration = {"BTC/USDT_long", "default"}
    /\ leverage_configuration["BTC/USDT_long"] # leverage_configuration["default"]
    /\ last.arg[1] = "BTC/USDT" /\ last.arg[2] = "long"
    /\ last.ret = leverage_configuration["BTC/USDT_long"]

\* C6: get_dataframe_from_cache(pair, tf) is the dataframe of the most recent
\* cache_dataframe call for that pair and timeframe while its entry has not
\* been evicted since, and None when it was never cached or was evicted and
\* not cached again, whatever the other keys hold.
C6_CacheReturnsLastCached ==
    started =>
        \A pair \in Pairs, tf \in Timeframes :
            get_dataframe_from_cache(custom_info.cache, pair, tf) = cached[<<pair, tf>>]

\* A dataframe was read back while another key holds another dataframe and
\* an entry has been evicted.
C6_Witness ==
    /\ last.op = "get_dataframe_from_cache"
    /\ last.ret = "df2"
    /\ \E key \in DOMAIN custom_info.cache :
          /\ key # cache_key(last.arg[1], last.arg[2])
          /\ custom_info.cache[key].df = "df1"
    /\ \E key \in DOMAIN custom_info.cache : custom_info.cache[key].datetime < now
    /\ Cardinality(DOMAIN custom_info.cache) = MaxCache

\* The last call ran cleanup_cache.
CleanupCalled ==
    \/ last.op = "cleanup_cache"
    \/ last.op = "bot_loop_start" /\ last.ret = "periodic"

\* C7: cleanup_cache removes exactly the entries whose last update is more
\* than their timeframe plus two minutes ago and leaves every other entry as
\* it was.
C7_CleanupRemovesExactlyOutdated ==
    [][CleanupCalled' =>
        /\ DOMAIN custom_info'.cache =
               {key \in DOMAIN custom_info.cache :
                   now - custom_info.cache[key].datetime
                       <= 60 * (timeframe_to_minutes(custom_info.cache[key].tf) + 2)}
        /\ \A key \in DOMAIN custom_info'.cache :
               custom_info'.cache[key] = custom_info.cache[key]]_vars

\* A cleanup evicted an entry and kept one that is exactly its timeframe plus
\* two minutes old.
C7_Witness ==
    /\ last.op = "cleanup_cache"
    /\ last.arg[1] # {}
    /\ \E key \in DOMAIN custom_info.cache :
          now - custom_info.cache[key].datetime
              = 60 * (timeframe_to_minutes(custom_info.cache[key].tf) + 2)

\* C8: a message logged with level WARNING or ERROR is always sent, whatever
\* notify is; with level INFO or DEBUG it is sent only when notify is true.
C8_WarningsAlwaysNotify ==
    last.op = "log" =>
        /\ last.arg[2] \in {"WARNING", "ERROR"} => last.ret = TRUE
        /\ last.arg[2] \in {"INFO", "DEBUG"} => (last.ret = TRUE <=> last.arg[3] = "True")

\* C9: after bot_loop_start no pair that was scheduled keeps an 'Auto lock',
\* and the list of scheduled pairs is empty.
C9_ScheduledAutolocksRemoved ==
    last.op = "bot_loop_start" =>
        /\ custom_info.remove_autolock = <<>>
        /\ \A i \in 1..Len(last.arg[1]) : <<last.arg[1][i], "Auto lock">> \notin locks

\* The loop removed the 'Auto lock' of two scheduled pairs and left a lock
\* with another reason.
C9_Witness ==
    /\ last.op = "bot_loop_start"
    /\ Len(last.arg[1]) = 2
    /\ last.arg[1][1] # last.arg[1][2]
    /\ \A i \in 1..2 : <<last.arg[1][i], "Auto lock">> \in last.arg[2]
    /\ \E pair \in Pairs : <<pair, "Cooldown">> \in locks

\* C10: the periodic tasks run exactly once in each five-minute period in
\* which the loop iterates: never twice, and never not at all.
C10_PeriodicOncePerPeriod ==
    \A p \in Periods :
        /\ runs[p] <= 1
        /\ (p < Period(now) /\ iters[p]) => runs[p] = 1

\* C11: order_filled deletes the custom data entry '<pair>_<direction>' of the
\* trade if and only if the filled order is on the trade's exit side and the
\* trade is no longer open; every other entry of custom_info, 'cache' and
\* 'remove-autolock' included, is left as it was.
C11_OrderFilledDeletesOnClose ==
    [][last'.op = "order_filled" =>
        LET trade == trades'[last'.arg[1]]
            key == trade.pair \o "_" \o trade.trade_direction
            closing == /\ last'.arg[3] = (IF trade.trade_direction = "short"
                                          THEN "buy" ELSE "sell")
                       /\ trade.status # "open"
        IN  /\ key \in custom_info.data =>
                (key \notin custom_info'.data <=> closing)
            /\ custom_info'.data \ {key} = custom_info.data \ {key}
            /\ key \notin custom_info.data => key \notin custom_info'.data
            /\ custom_info'.cache = custom_info.cache
            /\ custom_info'.remove_autolock = custom_info.remove_autolock]_vars

\* A short trade's exit filled and its entry was deleted, beside another
\* trade's entry, a cached dataframe and a scheduled pair.
C11_Witness ==
    /\ last.op = "order_filled"
    /\ last.arg[2] = "exit"
    /\ trades[last.arg[1]].trade_direction = "short"
    /\ last.ret = get_custom_pairkey(trades[last.arg[1]].pair, "short")
    /\ last.ret \notin custom_info.data
    /\ custom_info.data # {}
    /\ DOMAIN custom_info.cache # {}
    /\ Len(custom_info.remove_autolock) > 0

\* The trades that are open, and those of them whose initial_stop_loss_pct
\* differs by more than 0.1 from (stop_loss - last price) / last price:
\* |pct / 100 - (stop - last) / last| > 1 / 10, multiplied by 100 * last.
OpenTrades == {t \in TradeIds : trades[t].status = "open"}

OutsideBand(t) ==
    LET lastprice == ticker[trades[t].pair]
    IN  Abs(100 * trades[t].stop_loss
            - (100 + trades[t].initial_stop_loss_pct) * lastprice) > 10 * lastprice

\* C12: get_trade_stoploss_count counts exactly the open trades whose
\* initial_stop_loss_pct differs by more than 0.1 from the ratio
\* (stop_loss - last price) / last price; a closed trade does not count. The
\* count is read from max_open_trades right after update_max_trade_count.
C12_CountsOpenTradesOutsideBand ==
    (enable_improved_trade_count /\ UpdateCalled) =>
        LET counted == {t \in OpenTrades : OutsideBand(t)}
        IN  /\ max_open_trades = IntVal(config_max_trades + Cardinality(counted))
            /\ max_open_trades.val - config_max_trades <= Cardinality(OpenTrades)
            /\ max_open_trades.val - config_max_trades >= 0

\* A closed trade outside the band and an open trade exactly on the band:
\* neither was counted.
C12_Witness ==
    /\ enable_improved_trade_count
    /\ UpdateCalled
    /\ \E t \in TradeIds : trades[t].status = "closed" /\ OutsideBand(t)
    /\ \E t \in OpenTrades :
          /\ trades[t].initial_stop_loss_pct = -10
          /\ trades[t].stop_loss = ticker[trades[t].pair]
    /\ max_open_trades = IntVal(config_max_trades)

====
